---- MODULE Spec2Model ----
(***************************************************************************)
(* Model of smokelite/allocators/vertical.py: add_pressure, interp_va,     *)
(* make3d and the Vertical allocator (constructor and allocate).           *)
(*                                                                         *)
(* Floating-point numbers are modelled as exact rationals [n, d] in lowest *)
(* terms with d > 0, plus the IEEE value NaN, written [n |-> 0, d |-> 0],  *)
(* which numpy produces for 0/0.  Rounding is not modelled.  Pressures are *)
(* in scaled units (surface pressure 5, model top 0 or 1) so that every    *)
(* intermediate product stays inside TLC's 32-bit integers.                *)
(***************************************************************************)
EXTENDS Integers, Sequences, FiniteSets, TLC

VARIABLES
    pc,          \* "new" before Vertical.__init__ has run, "configured" after
    indf,        \* self.indf: the table read from the csv (column -> values)
    outvglvls,   \* self.outvglvls: the n+1 target edges
    outvgtop,    \* self.outvgtop
    csvvgtop,    \* constructor argument csvvgtop
    psfc,        \* self.psfc
    prune,       \* constructor argument prune
    interpraw,   \* interp_va: out[key] right after np.interp (line 90)
    interpdf,    \* the table interp_va returned to __init__ (line 230)
    outdf,       \* self.outdf: the resident profile (column -> values)
    outindex,    \* self.outdf.index: the interpolated row each resident row is
    alloc_keys,  \* the caller's sector-assignment dict (the object itself)
    written,     \* that dict as the caller wrote it
    declared,    \* the sector assignment the last allocate call was given, as
                 \* its caller wrote it
    infile,      \* the input field of the last allocate call
    outfile,     \* what the last allocate call returned (NoFile if it raised)
    error,       \* the exception the last allocate call raised, or "none"
    ncalls       \* allocate calls made so far

profilevars == <<pc, indf, outvglvls, outvgtop, csvvgtop, psfc, prune,
                 interpraw, interpdf, outdf, outindex>>
callvars == <<alloc_keys, written, declared, infile, outfile, error, ncalls>>
vars == <<profilevars, callvars>>

-----------------------------------------------------------------------------
(* Bounds of the model *)

MaxRows == 3      \* most rows of the csv table
MaxEdges == 4     \* most target edges (n + 1)
MaxCalls == 2     \* most allocate calls on one instance

-----------------------------------------------------------------------------
(* Rational arithmetic standing in for numpy float64 *)

RECURSIVE GCD(_, _)
GCD(a, b) == IF b = 0 THEN a ELSE GCD(b, a % b)

Abs(i) == IF i < 0 THEN -i ELSE i

NaN == [n |-> 0, d |-> 0]

IsNaN(a) == a.d = 0

\* n / d in lowest terms, d # 0
Rat(n, d) ==
    LET s == IF d < 0 THEN -1 ELSE 1
        g == GCD(Abs(n), Abs(d))
    IN  [n |-> (s * n) \div g, d |-> (s * d) \div g]

Zero == [n |-> 0, d |-> 1]
One == [n |-> 1, d |-> 1]

RAdd(a, b) ==
    IF IsNaN(a) \/ IsNaN(b) THEN NaN
    ELSE Rat(a.n * b.d + b.n * a.d, a.d * b.d)

RSub(a, b) ==
    IF IsNaN(a) \/ IsNaN(b) THEN NaN
    ELSE Rat(a.n * b.d - b.n * a.d, a.d * b.d)

RMul(a, b) ==
    IF IsNaN(a) \/ IsNaN(b) THEN NaN
    ELSE Rat(a.n * b.n, a.d * b.d)

\* numpy true division: 0/0 is nan (a RuntimeWarning, no exception).  A
\* non-zero numerator over zero (inf) cannot arise: weights are non-negative,
\* so a column whose sum is zero is zero everywhere.
RDiv(a, b) ==
    IF IsNaN(a) \/ IsNaN(b) THEN NaN
    ELSE IF b.n = 0 THEN NaN
    ELSE Rat(a.n * b.d, a.d * b.n)

\* comparisons with nan are False
RLt(a, b) == ~IsNaN(a) /\ ~IsNaN(b) /\ a.n * b.d < b.n * a.d
RGt(a, b) == RLt(b, a)

RECURSIVE SeqSum(_)
SeqSum(s) == IF s = <<>> THEN Zero ELSE RAdd(Head(s), SeqSum(Tail(s)))

\* an array whose elements are computed once, when it is built
Array(s) == s \o <<>>

Rev(s) == Array([i \in 1..Len(s) |-> s[Len(s) + 1 - i]])

Last(s) == s[Len(s)]

\* the entries of s at the positions p (strictly increasing), in order
Select(s, p) == Array([i \in 1..Len(p) |-> s[p[i]]])

RECURSIVE Positions(_, _)
\* the positions i >= from with mask[i], in increasing order
Positions(mask, from) ==
    IF from > Len(mask) THEN <<>>
    ELSE IF mask[from] THEN <<from>> \o Positions(mask, from + 1)
    ELSE Positions(mask, from + 1)

-----------------------------------------------------------------------------
(* add_pressure *)

add_pressure(va_df, ptop, psurf) ==
    [k \in DOMAIN va_df \cup {"Pressure"} |->
        IF k = "Pressure"
        THEN Array([i \in 1..Len(va_df["Sigma"]) |->
                 RAdd(RMul(va_df["Sigma"][i], Rat(psurf - ptop, 1)), Rat(ptop, 1))])
        ELSE va_df[k]]

-----------------------------------------------------------------------------
(* interp_va *)

\* InterpAt with the `left=0` argument dropped: numpy then holds fp[0] below
\* xp[0]
InterpAtHoldLeft(xi, xp, fp, left) ==
    IF RLt(xi, xp[1]) THEN fp[1]
    ELSE IF RGt(xi, Last(xp)) THEN Last(fp)
    ELSE LET j == CHOOSE k \in 1..Len(xp) :
                      /\ ~RLt(xi, xp[k])
                      /\ (k = Len(xp) \/ RLt(xi, xp[k + 1]))
         IN  IF j = Len(xp) \/ xp[j] = xi THEN fp[j]
             ELSE LET slope == RDiv(RSub(fp[j + 1], fp[j]), RSub(xp[j + 1], xp[j]))
                  IN  RAdd(RMul(slope, RSub(xi, xp[j])), fp[j])

\* numpy.interp for one point: xp increasing, `left` below xp[0], fp[-1]
\* (numpy's default `right`) above xp[-1], linear in between
InterpAt(xi, xp, fp, left) ==
    IF RLt(xi, xp[1]) THEN left
    ELSE IF RGt(xi, Last(xp)) THEN Last(fp)
    ELSE LET j == CHOOSE k \in 1..Len(xp) :
                      /\ ~RLt(xi, xp[k])
                      /\ (k = Len(xp) \/ RLt(xi, xp[k + 1]))
         IN  IF j = Len(xp) \/ xp[j] = xi THEN fp[j]
             ELSE LET slope == RDiv(RSub(fp[j + 1], fp[j]), RSub(xp[j + 1], xp[j]))
                  IN  RAdd(RMul(slope, RSub(xi, xp[j])), fp[j])

np_interp(x, xp, fp, left) ==
    Array([i \in 1..Len(x) |-> InterpAt(x[i], xp, fp, left)])

\* line 77
NormalizedPressure(va_df, vgtop, psurf) ==
    Array([i \in 1..Len(va_df["Pressure"]) |->
        RDiv(RSub(va_df["Pressure"][i], Rat(vgtop, 1)), Rat(psurf - vgtop, 1))])

\* lines 79-83
Inverted(xp) == RLt(Last(xp), xp[1])

\* SourceSeries with the reversal of fp forgotten
SourceSeriesNotReversed(va_df, key, invert) == va_df[key]

\* lines 87-89
SourceSeries(va_df, key, invert) == IF invert THEN Rev(va_df[key]) ELSE va_df[key]

\* lines 74-90: every column interpolated, before any renormalization
InterpColumns(va_df, vglvls, vgtop, psurf) ==
    LET x == Tail(vglvls)
        xp0 == NormalizedPressure(va_df, vgtop, psurf)
        invert == Inverted(xp0)
        xp == IF invert THEN Rev(xp0) ELSE xp0
    IN  [key \in DOMAIN va_df |->
            np_interp(x, xp, SourceSeries(va_df, key, invert), Zero)]

\* line 92: out[key] /= out[key].sum()
Renormalize(col) ==
    LET total == SeqSum(col)
    IN  Array([i \in 1..Len(col) |-> RDiv(col[i], total)])

interp_va(va_df, vglvls, vgtop, psurf, metakeys) ==
    LET x == Tail(vglvls)
        raw == InterpColumns(va_df, vglvls, vgtop, psurf)
    IN  [key \in DOMAIN va_df \cup {"Sigma"} |->
            IF key = "Sigma" THEN x
            ELSE IF key \in metakeys THEN raw[key]
            ELSE Renormalize(raw[key])]

-----------------------------------------------------------------------------
(* Vertical.__init__ *)

\* line 220
DefaultMetaKeys == {"Sigma", "Pressure", "Alt", "L"}

\* lines 234-235
WithLayer1(df) ==
    [key \in DOMAIN df \cup {"LAYER1"} |->
        IF key = "LAYER1"
        THEN Array([i \in 1..Len(df["Sigma"]) |-> IF i = 1 THEN One ELSE Zero])
        ELSE df[key]]

RECURSIVE SumOver(_, _, _)
\* the sum of row i over the columns keys
SumOver(df, keys, i) ==
    IF keys = {} THEN Zero
    ELSE LET k == CHOOSE c \in keys : TRUE
         IN  RAdd(df[k][i], SumOver(df, keys \ {k}, i))

\* lines 236-239
LayerUsed(df, metakeys, pruning) ==
    [i \in 1..Len(df["Sigma"]) |->
        \/ RGt(SumOver(df, DOMAIN df \ metakeys, i), Zero)
        \/ i = 1
        \/ ~pruning]

\* line 240
SelectRows(df, rows) == [key \in DOMAIN df |-> Select(df[key], rows)]

Construct ==
    /\ pc = "new"
    /\ LET table == IF "Pressure" \in DOMAIN indf THEN indf
                    ELSE add_pressure(indf, csvvgtop, psfc)
           raw == InterpColumns(table, Tail(outvglvls), outvgtop, psfc)
           df == interp_va(table, Tail(outvglvls), outvgtop, psfc, DefaultMetaKeys)
           full == WithLayer1(df)
           rows == Positions(LayerUsed(full, DefaultMetaKeys, prune), 1)
       IN  /\ indf' = table
           /\ interpraw' = raw
           /\ interpdf' = df
           /\ outdf' = SelectRows(full, rows)
           /\ outindex' = rows
    /\ pc' = "configured"
    /\ UNCHANGED <<outvglvls, outvgtop, csvvgtop, psfc, prune>>
    /\ UNCHANGED callvars

-----------------------------------------------------------------------------
(* make3d *)

\* A field is [variables |-> name -> values, VGLVLS |-> edges, NLAYS |-> count].
\* A variable with the LAY dimension holds one value per layer (one cell);
\* TFLAG has no LAY dimension and holds its stamp.
HasLay(key) == key # "TFLAG"

\* line 163: infile.slice(LAY=[0]*nz), a new field with layer 0 taken nz times
Slice(field, nz) ==
    [field EXCEPT !.variables =
        [key \in DOMAIN field.variables |->
            IF HasLay(key) THEN Array([l \in 1..nz |-> field.variables[key][1]])
            ELSE field.variables[key]]]

\* Scale with every layer multiplied by the first fraction
ScaleByFirst(var, layerfractions) ==
    Array([l \in 1..Len(var) |-> RMul(var[l], layerfractions[1])])

\* line 167: var[:] *= layerfractions[None, :, None, None]
Scale(var, layerfractions) ==
    Array([l \in 1..Len(var) |-> RMul(var[l], layerfractions[l])])

make3d(field, layerfractions, vglvls) ==
    LET nz == Len(layerfractions)
        sliced == Slice(field, nz)
    IN  [variables |->
            [key \in DOMAIN sliced.variables |->
                IF key # "TFLAG" THEN Scale(sliced.variables[key], layerfractions)
                ELSE sliced.variables[key]],
         VGLVLS |-> vglvls,
         NLAYS |-> nz]

-----------------------------------------------------------------------------
(* Vertical.allocate *)

NoFile == [variables |-> <<>>, VGLVLS |-> <<>>, NLAYS |-> 0]

\* infile.subset(varkeys): the named variables that the field has; TFLAG,
\* a coordinate variable, stays
Subset(field, varkeys) ==
    [field EXCEPT !.variables =
        [key \in (DOMAIN field.variables) \cap (varkeys \cup {"TFLAG"}) |->
            field.variables[key]]]

\* lines 276-279
AllKeys(field) == {k \in DOMAIN field.variables : HasLay(k)}

\* lines 283-288.  A dict is a sequence of [sector, isnone, varkeys] in
\* insertion order; isnone says the value is None.
IsNone(keys) == {i \in 1..Len(keys) : keys[i].isnone}

AssignedKeys(keys) == UNION {keys[i].varkeys : i \in (1..Len(keys)) \ IsNone(keys)}

\* TooManyNone with the comparison off by one
TooManyNoneOffByOne(keys) == Cardinality(IsNone(keys)) > 2

\* line 291
TooManyNone(keys) == Cardinality(IsNone(keys)) > 1

\* lines 293-294: alloc_keys[isnone[0]] = unassigned_keys
Resolved(keys, field) ==
    [i \in 1..Len(keys) |->
        IF keys[i].isnone
        THEN [sector |-> keys[i].sector, isnone |-> FALSE,
              varkeys |-> AllKeys(field) \ AssignedKeys(keys)]
        ELSE keys[i]]

\* lines 296-302
SectorFiles(keys, field) ==
    [i \in 1..Len(keys) |->
        make3d(Subset(field, keys[i].varkeys), outdf[keys[i].sector], outvglvls)]

\* line 304: the sector files stacked in order; the file attributes are
\* those of the first
Stack(files) ==
    [parts |-> files, VGLVLS |-> files[1].VGLVLS, NLAYS |-> files[1].NLAYS]

\* the body of allocate from line 276 on, for the dict `keys`; `mine` says
\* that `keys` is the caller's object, so that line 294 writes into it
AllocateBody(keys, field, mine) ==
    /\ infile' = field
    /\ declared' = IF mine THEN written ELSE keys
    /\ ncalls' = ncalls + 1
    /\ IF TooManyNone(keys)
       THEN /\ error' = "ValueError"
            /\ outfile' = NoFile
            /\ UNCHANGED alloc_keys
       ELSE /\ error' = "none"
            /\ outfile' = Stack(SectorFiles(Resolved(keys, field), field))
            /\ alloc_keys' = IF mine THEN Resolved(keys, field) ELSE alloc_keys
    /\ UNCHANGED <<profilevars, written>>

\* allocate(infile, alloc_keys) with the caller's dict
AllocateDict(field) ==
    /\ pc = "configured"
    /\ ncalls < MaxCalls
    /\ AllocateBody(alloc_keys, field, TRUE)

\* allocate(infile, sector) with a sector name: lines 270-271 build a new
\* dict {sector: None}
AllocateStr(field, sector) ==
    /\ pc = "configured"
    /\ ncalls < MaxCalls
    /\ AllocateBody(<<[sector |-> sector, isnone |-> TRUE, varkeys |-> {}]>>,
                    field, FALSE)

-----------------------------------------------------------------------------
(* Inputs *)

\* sigma values (layer tops) a csv table may carry
SigmaValues == {Rat(0, 1), Rat(1, 4), Rat(1, 2), Rat(1, 1)}

\* values the target edges after the first may take; the first edge is 1
EdgeValues == {Rat(0, 1), Rat(1, 4), Rat(1, 2), Rat(3, 4)}

\* model-top pressures of the target grid (the surface pressure is 5 and the
\* csv's model top is 1 in the same units)
VgtopValues == {0, 1}

StrictlyMonotonic(s) ==
    \/ \A i \in 1..(Len(s) - 1) : RLt(s[i], s[i + 1])
    \/ \A i \in 1..(Len(s) - 1) : RGt(s[i], s[i + 1])

SigmaColumns ==
    UNION {{s \in [1..n -> SigmaValues] : StrictlyMonotonic(s)} : n \in 1..MaxRows}

\* sector weights a csv table may carry (non-negative)
Weights == {Zero, One}

\* a csv table: Sigma (strictly monotonic), the meta columns Alt and L, and
\* the sector columns A and B with non-negative weights
Tables ==
    UNION {{[Sigma |-> sg,
             Alt |-> [i \in 1..Len(sg) |-> RSub(One, sg[i])],
             L |-> [i \in 1..Len(sg) |-> Rat(i, 1)],
             A |-> a,
             B |-> b] :
            a \in [1..Len(sg) -> Weights], b \in [1..Len(sg) -> Weights]} :
           sg \in SigmaColumns}

\* target grids: 1 followed by strictly decreasing edges.  A grid has at
\* least two layers (three edges), so that interp_va, which is handed
\* outvglvls[1:] and drops its first entry again, has a target point.
Grids ==
    UNION {{<<One>> \o e : e \in {s \in [1..n -> EdgeValues] :
                \A i \in 1..(n - 1) : RGt(s[i], s[i + 1])}} : n \in 2..(MaxEdges - 1)}

\* the variables an input field may hold besides TFLAG, with their values
\* on the single input layer
FieldVars == {"NOX", "CO"}

FieldValue(key) == IF key = "NOX" THEN Rat(10, 1) ELSE Rat(3, 1)

\* single-layer input fields: some variables with LAY, and TFLAG
Fields ==
    {[variables |-> [k \in V \cup {"TFLAG"} |->
                        IF k = "TFLAG" THEN <<Rat(7, 1)>> ELSE <<FieldValue(k)>>],
      VGLVLS |-> <<One, Zero>>,
      NLAYS |-> 1] : V \in (SUBSET FieldVars) \ {{}}}

\* sectors a dict may name, and the values it may give them
DictSectors == {"A", "B"}

DictValues ==
    {[isnone |-> TRUE, varkeys |-> {}], [isnone |-> FALSE, varkeys |-> {"NOX"}]}

Dicts ==
    UNION {{[i \in 1..n |-> [sector |-> sec[i], isnone |-> val[i].isnone,
                             varkeys |-> val[i].varkeys]] :
             sec \in {q \in [1..n -> DictSectors] :
                         \A i, j \in 1..n : i # j => q[i] # q[j]},
             val \in [1..n -> DictValues]} : n \in 1..2}

\* sector names allocate may be given as a str
StrSectors == {"A", "LAYER1"}

NoField == [variables |-> <<>>, VGLVLS |-> <<>>, NLAYS |-> 0]

InitProfile ==
    /\ pc = "new"
    /\ outvglvls \in Grids
    /\ psfc = 5
    /\ prune \in BOOLEAN
    /\ interpraw = <<>>
    /\ interpdf = <<>>
    /\ outdf = <<>>
    /\ outindex = <<>>

InitCalls ==
    /\ written = alloc_keys
    /\ declared = <<>>
    /\ infile = NoField
    /\ outfile = NoFile
    /\ error = "none"
    /\ ncalls = 0

\* every table, a target grid with the csv's model top or a lower one; one
\* dict, as allocate is not called
InitConstruct ==
    /\ InitProfile
    /\ indf \in Tables
    /\ outvgtop \in VgtopValues
    /\ csvvgtop = 1
    /\ alloc_keys = <<[sector |-> "A", isnone |-> TRUE, varkeys |-> {}]>>
    /\ InitCalls

\* the tables with one row at the surface (sigma 1) and one at the model top
\* (sigma 0), on the target grid's own model top; every dict
Init ==
    /\ InitProfile
    /\ indf \in {t \in Tables : t["Sigma"] = <<One, Zero>>}
    /\ outvgtop = 1
    /\ csvvgtop = 1
    /\ alloc_keys \in Dicts
    /\ InitCalls

Allocate ==
    \/ \E field \in Fields : AllocateDict(field)
    \/ \E field \in Fields, sector \in StrSectors : AllocateStr(field, sector)

Next == Construct \/ Allocate

\* construction and any sequence of allocate calls
Spec == Init /\ [][Next]_vars

\* construction alone, over every table
SpecConstruct == InitConstruct /\ [][Construct]_vars

-----------------------------------------------------------------------------
(* Properties *)

Configured == pc = "configured"

\* the last allocate call returned a field
Returned == ncalls > 0 /\ error = "none"

\* the sector columns of a profile
SectorKeys(df) == DOMAIN df \ DefaultMetaKeys

AllZero(col) == \A i \in 1..Len(col) : col[i] = Zero

\* the interpolated rows the resident profile retains
Kept(i) == \E r \in 1..Len(outindex) : outindex[r] = i

\* the target points interp_va interpolates at, and the normalized source
\* coordinate of each row of the table
TargetPoints == Tail(Tail(outvglvls))
SourcePoints == NormalizedPressure(indf, outvgtop, psfc)

\* C1: after construction every sector column of the resident profile whose
\* interpolated values are not all zero sums to exactly 1 over the retained
\* rows.
C1_ResidentColumnsSumToOne ==
    Configured =>
        \A key \in SectorKeys(outdf) :
            (key \in DOMAIN interpraw => ~AllZero(interpraw[key]))
                => SeqSum(outdf[key]) = One

\* C2: a sector column whose interpolated values are all zero is 0 on every
\* output row of interp_va after the renormalization (0/0 taken as 0).
C2_DegenerateColumnIsZero ==
    Configured =>
        \A key \in SectorKeys(interpdf) :
            AllZero(interpraw[key]) => AllZero(interpdf[key])

\* C3: in the field make3d returns for a sector, every variable other than
\* TFLAG has one layer per fraction, layer k is the input value times
\* fraction k, TFLAG is as in the input, and when the fractions sum to 1 the
\* layers sum to the input value.
C3_LayersAreScaledInput ==
    Returned =>
        \A i \in 1..Len(outfile.parts) :
            LET part == outfile.parts[i].variables
                fractions == outdf[declared[i].sector]
            IN  \A key \in DOMAIN part :
                    IF key = "TFLAG" THEN part[key] = infile.variables[key]
                    ELSE /\ Len(part[key]) = Len(fractions)
                         /\ \A k \in 1..Len(fractions) :
                                part[key][k] = RMul(infile.variables[key][1], fractions[k])
                         /\ SeqSum(fractions) = One
                                => SeqSum(part[key]) = infile.variables[key][1]

\* C3's case: a sector expanded over two or more layers with proper
\* fractions (each strictly between 0 and 1) that sum to 1
C3_Witness ==
    /\ Returned
    /\ \E i \in 1..Len(outfile.parts) :
           LET fractions == outdf[declared[i].sector]
           IN  /\ Len(fractions) >= 2
               /\ SeqSum(fractions) = One
               /\ \A k \in 1..Len(fractions) :
                      RGt(fractions[k], Zero) /\ RLt(fractions[k], One)
               /\ "NOX" \in DOMAIN outfile.parts[i].variables
               /\ "TFLAG" \in DOMAIN outfile.parts[i].variables

\* C4: every field allocate returns has as many VGLVLS entries as NLAYS + 1,
\* and NLAYS is the number of layers of its data variables.
C4_VerticalMetadataConsistent ==
    Returned =>
        /\ Len(outfile.VGLVLS) = outfile.NLAYS + 1
        /\ \A i \in 1..Len(outfile.parts) :
               \A key \in AllKeys(outfile.parts[i]) :
                   Len(outfile.parts[i].variables[key]) = outfile.NLAYS

\* C5: without pruning the resident profile has one row per target layer
\* (n rows for n + 1 edges) and row i carries Sigma = outvglvls[i + 1].
C5_RowsAreLayerTops ==
    (Configured /\ ~prune) =>
        /\ Len(outdf["Sigma"]) = Len(outvglvls) - 1
        /\ \A i \in 1..Len(outdf["Sigma"]) : outdf["Sigma"][i] = outvglvls[i + 1]

\* C6: with pruning the resident profile holds exactly the interpolated rows
\* that are the first row or have a strictly positive sum of sector values,
\* so a row with positive weight in some sector is never dropped; without
\* pruning it holds every row.
C6_PrunedRows ==
    Configured =>
        \A i \in 1..Len(interpdf["Sigma"]) :
            /\ Kept(i) <=> \/ ~prune
                           \/ i = 1
                           \/ RGt(SumOver(interpdf, SectorKeys(interpdf), i), Zero)
            /\ (\E key \in SectorKeys(interpdf) : RGt(interpdf[key][i], Zero)) => Kept(i)

\* C7: in every allocate call that returns, each sector its caller declared
\* default (None) receives exactly the variables of that call's input field
\* that carry LAY, minus those the caller listed for other sectors.
C7_DefaultGetsRemainder ==
    Returned =>
        \A i \in 1..Len(declared) :
            declared[i].isnone =>
                AllKeys(outfile.parts[i]) = AllKeys(infile) \ AssignedKeys(declared)

\* C8: an allocate call given a dict with two or more None sectors raises
\* ValueError, returns no field (nothing is expanded or stacked), and leaves
\* the caller's dict and the resident profile as they were.
C8_TwoDefaultsRaise ==
    [][(/\ ncalls' = ncalls + 1
        /\ declared' = written
        /\ Cardinality(IsNone(alloc_keys)) >= 2) =>
           /\ error' = "ValueError"
           /\ outfile' = NoFile
           /\ alloc_keys' = alloc_keys
           /\ outdf' = outdf
           /\ outindex' = outindex]_vars

\* C8's case: a call with two None sectors has been made and has raised
C8_Witness ==
    /\ ncalls > 0
    /\ Cardinality(IsNone(declared)) >= 2
    /\ error = "ValueError"

ReverseRows(df) == [key \in DOMAIN df |-> Rev(df[key])]

\* C9: interpolating the table with its rows in reversed order gives the
\* same output table as interpolating the table itself.
C9_OrientationInvariant ==
    Configured =>
        interp_va(ReverseRows(indf), Tail(outvglvls), outvgtop, psfc, DefaultMetaKeys)
            = interpdf

\* C9's case: a table of two or more rows whose A column reads differently
\* in the two orders, with a positive interpolated A weight
C9_Witness ==
    /\ Configured
    /\ Len(indf["Sigma"]) >= 2
    /\ indf["A"] # Rev(indf["A"])
    /\ \E i \in 1..Len(interpdf["A"]) : RGt(interpdf["A"][i], Zero)

\* C10: before renormalization a column's value at a target point strictly
\* below the smallest source coordinate is 0, at a target point strictly
\* above the largest it is the source value at the largest, and between two
\* adjacent source points it is the linear interpolant.
C10_ClampBelowHoldAbove ==
    Configured =>
        \A key \in DOMAIN interpraw :
            \A j \in 1..Len(TargetPoints) :
                LET x == TargetPoints[j]
                    xp == SourcePoints
                    fp == indf[key]
                    rows == 1..Len(xp)
                IN  /\ (\A r \in rows : RLt(x, xp[r])) => interpraw[key][j] = Zero
                    /\ \A r \in rows :
                           (\A q \in rows : RGt(x, xp[q]) /\ ~RGt(xp[q], xp[r]))
                               => interpraw[key][j] = fp[r]
                    /\ \A r \in rows \ {Len(xp)} :
                           LET lo == IF RLt(xp[r], xp[r + 1]) THEN r ELSE r + 1
                               hi == IF RLt(xp[r], xp[r + 1]) THEN r + 1 ELSE r
                           IN  (~RLt(x, xp[lo]) /\ ~RGt(x, xp[hi])) =>
                                   interpraw[key][j] =
                                       RAdd(fp[lo],
                                            RDiv(RMul(RSub(fp[hi], fp[lo]), RSub(x, xp[lo])),
                                                 RSub(xp[hi], xp[lo])))

\* C10's case: the A column is non-zero at both ends of the table, one
\* target point lies strictly below every source point and another strictly
\* above every source point
C10_Witness ==
    /\ Configured
    /\ \A r \in 1..Len(indf["A"]) : indf["A"][r] # Zero
    /\ \E j \in 1..Len(TargetPoints) :
           \A r \in 1..Len(SourcePoints) : RLt(TargetPoints[j], SourcePoints[r])
    /\ \E j \in 1..Len(TargetPoints) :
           \A r \in 1..Len(SourcePoints) : RGt(TargetPoints[j], SourcePoints[r])

====
